---- MODULE Spec2Model ----
(***************************************************************************)
(* The state-graph construction engine of aws-stepfunctions: the State     *)
(* base class (transition declarations, the graph-binding protocol,        *)
(* reachability, retry/catch rendering).                                   *)
(*                                                                         *)
(* Every method of State is one action.  A method that throws leaves the   *)
(* mutations it made before the throw in place and records the exception   *)
(* in `thrown'.                                                            *)
(***************************************************************************)
EXTENDS Integers, Sequences, FiniteSets, TLC

VARIABLES
  _next,                   \* State._next
  defaultChoice,           \* State.defaultChoice
  choices,                 \* State.choices
  catches,                 \* State.catches
  retries,                 \* State.retries
  incomingStates,          \* State.incomingStates
  containingGraph,         \* State.containingGraph
  branches,                \* State.branches
  iteration,               \* State.iteration
  processor,               \* State.processor
  allStates,               \* StateGraph: the member set filled by registerState
  superGraph,              \* StateGraph: the enclosing graph
  registerStateCalls,      \* number of registerState(s) invocations, per state
  registerSuperGraphCalls, \* number of registerSuperGraph invocations
  bindCalls,               \* number of bindToGraph invocations made by the last call
  thrown,                  \* the exception the last call ended with
  bodyRuns,                \* number of states the last call bound (line 349 reached)
  last,                    \* the method called last
  found,                   \* the last findReachable* call: arguments and result
  rendered,                \* the value returned by the last renderRetryCatch call
  declared,                \* history: the rules of each state as declared
  prefixes,                \* State.prefixes
  props,                   \* the props each state was constructed with
  scope,                   \* the construct each state was created in
  returned,                \* the value returned by the last render call
  job                      \* the BatchSubmitJob task: its props, and whether
                           \* its constructor returned

vars == <<_next, defaultChoice, choices, catches, retries, incomingStates,
          containingGraph, branches, iteration, processor, allStates,
          superGraph, registerStateCalls, registerSuperGraphCalls, bindCalls,
          bodyRuns, thrown, last, found, rendered, declared,
          prefixes, props, scope, returned, job>>

----------------------------------------------------------------------------
(* The objects and the bounds of the model *)

States == {"a", "b", "c"}
Graphs == {"G1", "G2"}
None == "none"

\* at most this many transitions (next, default, choice, catch) are declared
MaxTransitions == 2
\* at most this many sub-graphs (branch, iterator, processor) are attached
MaxSubGraphs == 1
\* at most this many retry rules and catch handlers are declared
MaxRules == 3
\* the depth of recursion at which the engine raises RangeError
MaxCallDepth == 12
\* the number of loop iterations after which a traversal counts as not ending
MaxIterations == 12

RECURSIVE SumOver(_, _)
SumOver(S, f) ==
  IF S = {} THEN 0
  ELSE LET x == CHOOSE y \in S : TRUE IN f[x] + SumOver(S \ {x}, f)

Count(b) == IF b THEN 1 ELSE 0

SeqToSet(q) == {q[i] : i \in 1..Len(q)}

----------------------------------------------------------------------------
(* Exceptions *)

NoError == [kind |-> "none", state |-> None, graph |-> None, existing |-> None]

\* 'Trying to use state s in graph, but is already in existing'
GraphError(s, g, e) ==
  [kind |-> "graph", state |-> s, graph |-> g, existing |-> e]

\* 'State s already has a next state'
NextError(s) ==
  [kind |-> "next", state |-> s, graph |-> None, existing |-> None]

\* 'Choice s already has a default next state'
DefaultError(s) ==
  [kind |-> "default", state |-> s, graph |-> None, existing |-> None]

\* 'States.ALL must appear alone in an error list'
ErrorsError ==
  [kind |-> "errors", state |-> None, graph |-> None, existing |-> None]

\* the engine's 'Maximum call stack size exceeded'
RangeError ==
  [kind |-> "range", state |-> None, graph |-> None, existing |-> None]

\* `Expected JSON path to start with '$'' (line 806)
PathError ==
  [kind |-> "path", state |-> None, graph |-> None, existing |-> None]

\* `'queryLanguage' can not be 'JSONPath' if set to 'JSONata' ...' (line 591)
QueryLanguageError(s) ==
  [kind |-> "queryLanguage", state |-> s, graph |-> None, existing |-> None]

----------------------------------------------------------------------------
(* The object graph a call works on *)

Heap ==
  [_next |-> _next, defaultChoice |-> defaultChoice, choices |-> choices,
   catches |-> catches, incomingStates |-> incomingStates,
   branches |-> branches, iteration |-> iteration, processor |-> processor]

\* what a call may change besides the transition data
Mem ==
  [containingGraph |-> containingGraph, allStates |-> allStates,
   superGraph |-> superGraph, registerStateCalls |-> registerStateCalls,
   registerSuperGraphCalls |-> registerSuperGraphCalls,
   bindCalls |-> 0, bodyRuns |-> 0, thrown |-> NoError]

\* the catch handlers are never among the transitions
outgoingTransitionsNoHandlers(h, s, includeErrorHandlers) ==
  (IF h._next[s] # None THEN <<h._next[s]>> ELSE <<>>)
  \o (IF h.defaultChoice[s] # None THEN <<h.defaultChoice[s]>> ELSE <<>>)
  \o [i \in 1..Len(h.choices[s]) |-> h.choices[s][i].next]

outgoingTransitions(h, s, includeErrorHandlers) ==
  (IF h._next[s] # None THEN <<h._next[s]>> ELSE <<>>)
  \o (IF h.defaultChoice[s] # None THEN <<h.defaultChoice[s]>> ELSE <<>>)
  \o [i \in 1..Len(h.choices[s]) |-> h.choices[s][i].next]
  \o (IF includeErrorHandlers
      THEN [i \in 1..Len(h.catches[s]) |-> h.catches[s][i].next]
      ELSE <<>>)

\* the source of a transition is not recorded at its target
addIncomingNever(inc, target, source) == inc

addIncoming(inc, target, source) ==
  [inc EXCEPT ![target] = Append(@, source)]

----------------------------------------------------------------------------
(* StateGraph *)

registerState(m, g, s) ==
  [m EXCEPT !.allStates[g] = @ \cup {s},
            !.registerStateCalls[s] = @ + 1]

registerSuperGraph(m, sub, g) ==
  [m EXCEPT !.superGraph[sub] = IF @ = None THEN g ELSE @,
            !.registerSuperGraphCalls = @ + 1]

----------------------------------------------------------------------------
(* State.bindToGraph *)

\* the hook that registers nothing
whenBoundToGraphNever(m, s, g) == m

whenBoundToGraph(m, s, g) == registerState(m, g, s)

\* line 349 left out: the graph is not recorded before the recursion
recordGraphSkipped(m, s, g) == [m EXCEPT !.bodyRuns = @ + 1]

recordGraph(m, s, g) ==
  [m EXCEPT !.containingGraph[s] = g, !.bodyRuns = @ + 1]

\* line 342 left out
alreadyBoundToNever(m, s, g) == FALSE

alreadyBoundTo(m, s, g) == m.containingGraph[s] = g

\* lines 344-347 left out: a bound state is bound again
boundElsewhereNever(m, s, g) == FALSE

boundElsewhere(m, s, g) == m.containingGraph[s] # None

subGraphsOf(h, s) ==
  h.branches[s]
  \o (IF h.iteration[s] # None THEN <<h.iteration[s]>> ELSE <<>>)
  \o (IF h.processor[s] # None THEN <<h.processor[s]>> ELSE <<>>)

RECURSIVE registerEach(_, _, _)
registerEach(m, subs, g) ==
  IF subs = <<>> \/ m.thrown.kind # "none" THEN m
  ELSE registerEach(registerSuperGraph(m, Head(subs), g), Tail(subs), g)

RECURSIVE bindToGraph(_, _, _, _, _)
RECURSIVE bindEach(_, _, _, _, _)

bindToGraph(m, h, s, g, depth) ==
  IF depth > MaxCallDepth THEN [m EXCEPT !.thrown = RangeError]
  ELSE
    LET m0 == [m EXCEPT !.bindCalls = @ + 1] IN
    IF alreadyBoundTo(m0, s, g) THEN m0
    ELSE IF boundElsewhere(m0, s, g)
    THEN [m0 EXCEPT !.thrown = GraphError(s, g, m0.containingGraph[s])]
    ELSE
      LET m1 == whenBoundToGraph(recordGraph(m0, s, g), s, g)
          m2 == bindEach(m1, h, h.incomingStates[s], g, depth + 1)
          m3 == bindEach(m2, h, outgoingTransitions(h, s, TRUE), g, depth + 1)
      IN  registerEach(m3, subGraphsOf(h, s), g)

bindEach(m, h, targets, g, depth) ==
  IF targets = <<>> \/ m.thrown.kind # "none" THEN m
  ELSE bindEach(bindToGraph(m, h, Head(targets), g, depth),
                h, Tail(targets), g, depth)

\* the propagation left out of a declaration
propagateNever(m, h, source, target) == m

\* `if (this.containingGraph) { target.bindToGraph(this.containingGraph) }'
propagate(m, h, source, target) ==
  IF m.containingGraph[source] # None
  THEN bindToGraph(m, h, target, m.containingGraph[source], 1)
  ELSE m

Commit(m) ==
  /\ containingGraph' = m.containingGraph
  /\ allStates' = m.allStates
  /\ superGraph' = m.superGraph
  /\ registerStateCalls' = m.registerStateCalls
  /\ registerSuperGraphCalls' = m.registerSuperGraphCalls
  /\ bindCalls' = m.bindCalls
  /\ bodyRuns' = m.bodyRuns
  /\ thrown' = m.thrown

\* a call that throws before it changes anything
Throw(e) ==
  /\ thrown' = e
  /\ bindCalls' = 0
  /\ bodyRuns' = 0
  /\ UNCHANGED <<_next, defaultChoice, choices, catches, retries,
                 incomingStates, containingGraph, branches, iteration,
                 processor, allStates, superGraph, registerStateCalls,
                 registerSuperGraphCalls>>

----------------------------------------------------------------------------
(* Error-matcher lists *)

ALL == "States.ALL"
TASK_FAILED == "States.TaskFailed"
TIMEOUT == "States.Timeout"

\* an argument left out by the caller
Omitted == <<"undefined">>

includes(errors, e) == \E i \in 1..Len(errors) : errors[i] = e

\* a second entry tolerated: only lists of three or more are refused
invalidErrorsLax(errors) ==
  errors # Omitted /\ includes(errors, ALL) /\ Len(errors) > 2

\* the condition under which validateErrors throws
invalidErrors(errors) ==
  errors # Omitted /\ includes(errors, ALL) /\ Len(errors) > 1

\* `props.errors ?? [Errors.ALL]'
errorsOrAll(errors) == IF errors = Omitted THEN <<ALL>> ELSE errors

----------------------------------------------------------------------------
(* Strings, constructor props and the construct tree *)

(* A string is the sequence of its characters, so that concatenation and  *)
(* startsWith are computed; <<"undefined">> is no string.                 *)
Undefined == <<"undefined">>

\* the marker an unresolved token leaves in a string
TokenMarker == "${Token[TOKEN.1]}"

\* Token.isUnresolved: the string holds a token marker
isUnresolved(str) == \E i \in 1..Len(str) : str[i] = TokenMarker

JSON_PATH == "JSONPath"
JSONATA == "JSONata"

\* the construct the states of a composition are created in
Root == "root"

Constructs == {Root} \cup States

\* props with every optional member left out
NoProps ==
  [stateName |-> Undefined, queryLanguage |-> None,
   inputPath |-> Undefined, outputPath |-> Undefined,
   parameters |-> Undefined, arguments |-> Undefined, outputs |-> Undefined]

\* an object given as parameters, arguments or outputs
AnObject == <<"{}">>

\* `this.node.id': the states are named by one character
id(s) == <<s>>

RECURSIVE join(_)
\* Array.prototype.join('')
join(parts) == IF parts = <<>> THEN <<>> ELSE Head(parts) \o join(Tail(parts))

\* the stateName is never looked at
nameOfId(s) == id(s)

\* `this.stateName ? this.stateName : this.id': '' counts as left out
nameOf(s) ==
  IF props[s].stateName # Undefined /\ props[s].stateName # <<>>
  THEN props[s].stateName
  ELSE id(s)

\* the stateId getter over a given list of prefixes
stateIdWith(pre, s) == join(pre \o <<nameOf(s)>>)

stateId(s) == stateIdWith(prefixes[s], s)

\* every new prefix is appended instead of put in front
spliceBack(pre, x) == pre \o <<x>>

\* `this.prefixes.splice(0, 0, x)'
spliceFront(pre, x) == <<x>> \o pre

\* the node dialect is ignored
_getActualQueryLanguageOfRoot(topLevelQueryLanguage, stateLevelQueryLanguage) ==
  IF topLevelQueryLanguage # None THEN topLevelQueryLanguage ELSE JSON_PATH

_getActualQueryLanguage(topLevelQueryLanguage, stateLevelQueryLanguage) ==
  IF stateLevelQueryLanguage # None THEN stateLevelQueryLanguage
  ELSE IF topLevelQueryLanguage # None THEN topLevelQueryLanguage
  ELSE JSON_PATH

----------------------------------------------------------------------------
(* BatchSubmitJob: numbers, durations and props *)

(* An optional number is left out, an unresolved token, or a number.      *)
NoNumber == [defined |-> FALSE, resolved |-> TRUE, value |-> 0]
TokenNumber == [defined |-> TRUE, resolved |-> FALSE, value |-> 0]
Num(n) == [defined |-> TRUE, resolved |-> TRUE, value |-> n]

\* a number counts as true unless it is 0
truthyNumber(x) == x.defined /\ (~x.resolved \/ x.value # 0)

(* props.taskTimeout: left out, Timeout.duration(seconds) or              *)
(* Timeout.at(path); `seconds' is undefined for a path.                   *)
NoTaskTimeout == [defined |-> FALSE, seconds |-> NoNumber, path |-> FALSE]
TimeoutDuration(n) == [defined |-> TRUE, seconds |-> Num(n), path |-> FALSE]
TimeoutAt == [defined |-> TRUE, seconds |-> NoNumber, path |-> TRUE]

\* the limits the constructor checks
MinArraySize == 2
MaxArraySize == 10000
MinAttempts == 1
MaxAttempts == 10
MinAttemptDuration == 60

\* props of a job with every optional member left out; timeout is the
\* number of seconds of the Duration
NoJobProps ==
  [arraySize |-> NoNumber, attempts |-> NoNumber, timeout |-> NoNumber,
   taskTimeout |-> NoTaskTimeout]

\* `ValidationError' of the BatchSubmitJob constructor
ValidationError(what) ==
  [kind |-> what, state |-> None, graph |-> None, existing |-> None]

\* withResolved(a, fn): fn is not called for an unresolved argument
allResolved(args) == \A i \in 1..Len(args) : args[i].resolved

\* the lower limit taken for 1
arraySizeInvalidFromOne(arraySize) ==
  arraySize.defined /\ (arraySize.value < 1 \/ arraySize.value > MaxArraySize)

\* line 212
arraySizeInvalid(arraySize) ==
  arraySize.defined
    /\ (arraySize.value < MinArraySize \/ arraySize.value > MaxArraySize)

\* line 224
attemptsInvalid(attempts) ==
  attempts.defined
    /\ (attempts.value < MinAttempts \/ attempts.value > MaxAttempts)

\* `timeout ?? taskTimeout'
definedTimeout(timeout, taskTimeout) ==
  IF timeout.defined THEN timeout ELSE taskTimeout

\* line 234: `definedTimeout && definedTimeout < 60'
timeoutInvalid(timeout, taskTimeout) ==
  LET d == definedTimeout(timeout, taskTimeout) IN
  truthyNumber(d) /\ d.value < MinAttemptDuration

\* the outcome of the constructor: the checks in the order of lines 210-237
constructorOutcome(p) ==
  IF allResolved(<<p.arraySize>>) /\ arraySizeInvalid(p.arraySize)
  THEN ValidationError("arraySize")
  ELSE IF allResolved(<<p.attempts>>) /\ attemptsInvalid(p.attempts)
  THEN ValidationError("attempts")
  ELSE IF /\ (p.timeout.defined \/ p.taskTimeout.defined)
          /\ allResolved(<<p.timeout, p.taskTimeout.seconds>>)
          /\ timeoutInvalid(p.timeout, p.taskTimeout.seconds)
  THEN ValidationError("timeout")
  ELSE NoError

\* taskTimeout rendered although a timeout is given
renderedTimeoutOfTask(p) ==
  IF truthyNumber(p.taskTimeout.seconds) THEN p.taskTimeout.seconds
  ELSE IF p.taskTimeout.path THEN TokenNumber
  ELSE IF p.timeout.defined THEN p.timeout
  ELSE NoNumber

\* lines 262-269: a Duration object counts as true whatever its length
renderedTimeout(p) ==
  IF p.timeout.defined THEN p.timeout
  ELSE IF truthyNumber(p.taskTimeout.seconds) THEN p.taskTimeout.seconds
  ELSE IF p.taskTimeout.path THEN TokenNumber
  ELSE NoNumber

----------------------------------------------------------------------------
(* Construction and the transition declaration API *)

\* the field initialisers of lines 253-286
Fields ==
  /\ _next = [s \in States |-> None]
  /\ defaultChoice = [s \in States |-> None]
  /\ choices = [s \in States |-> <<>>]
  /\ catches = [s \in States |-> <<>>]
  /\ retries = [s \in States |-> <<>>]
  /\ incomingStates = [s \in States |-> <<>>]
  /\ containingGraph = [s \in States |-> None]
  /\ branches = [s \in States |-> <<>>]
  /\ iteration = [s \in States |-> None]
  /\ processor = [s \in States |-> None]
  /\ allStates = [g \in Graphs |-> {}]
  /\ superGraph = [g \in Graphs |-> None]
  /\ registerStateCalls = [s \in States |-> 0]
  /\ registerSuperGraphCalls = 0
  /\ bindCalls = 0
  /\ bodyRuns = 0
  /\ thrown = NoError
  /\ last = "new"
  /\ found = [start |-> None, includeErrorHandlers |-> "undefined",
              result |-> <<>>, ended |-> TRUE]
  /\ rendered = [state |-> None,
                 Retry |-> [present |-> FALSE, list |-> <<>>],
                 Catch |-> [present |-> FALSE, list |-> <<>>]]
  /\ declared = [s \in States |-> [retries |-> <<>>, catches |-> <<>>]]
  /\ prefixes = [s \in States |-> <<>>]
  /\ returned = [call |-> "new"]
  /\ job = [constructed |-> FALSE, props |-> NoJobProps]

\* every state is created in the root construct, with no optional prop
Init ==
  /\ Fields
  /\ props = [s \in States |-> NoProps]
  /\ scope = [s \in States |-> Root]

BindToGraph(s, g) ==
  /\ last' = "bindToGraph"
  /\ UNCHANGED <<prefixes, props, scope, returned, job>>
  /\ Commit(bindToGraph(Mem, Heap, s, g, 1))
  /\ UNCHANGED <<_next, defaultChoice, choices, catches, retries,
                 incomingStates, branches, iteration, processor,
                 found, rendered, declared>>

\* the check of line 414 left out
hasNextNever(s) == FALSE

\* `if (this._next)'
hasNext(s) == _next[s] # None

MakeNext(s, next) ==
  /\ last' = "makeNext"
  /\ UNCHANGED <<prefixes, props, scope, returned, job>>
  /\ UNCHANGED <<found, rendered, declared>>
  /\ IF hasNext(s) THEN Throw(NextError(s))
     ELSE
       LET h == [Heap EXCEPT !._next[s] = next,
                             !.incomingStates = addIncoming(@, next, s)]
       IN  /\ _next' = h._next
           /\ incomingStates' = h.incomingStates
           /\ Commit(propagate(Mem, h, s, next))
           /\ UNCHANGED <<defaultChoice, choices, catches, retries,
                          branches, iteration, processor>>

AddChoice(s, condition, next) ==
  /\ last' = "addChoice"
  /\ UNCHANGED <<prefixes, props, scope, returned, job>>
  /\ UNCHANGED <<found, rendered, declared>>
  /\ LET h == [Heap EXCEPT
                 !.choices[s] = Append(@, [condition |-> condition,
                                           next |-> next]),
                 !.incomingStates = addIncoming(@, next, s)]
     IN  /\ choices' = h.choices
         /\ incomingStates' = h.incomingStates
         /\ Commit(propagate(Mem, h, s, next))
         /\ UNCHANGED <<_next, defaultChoice, catches, retries,
                        branches, iteration, processor>>

\* the check of line 471 left out
hasDefaultNever(s) == FALSE

\* `if (this.defaultChoice)'
hasDefault(s) == defaultChoice[s] # None

MakeDefault(s, def) ==
  /\ last' = "makeDefault"
  /\ UNCHANGED <<prefixes, props, scope, returned, job>>
  /\ UNCHANGED <<found, rendered, declared>>
  /\ IF hasDefault(s) THEN Throw(DefaultError(s))
     ELSE /\ defaultChoice' = [defaultChoice EXCEPT ![s] = def]
          /\ Commit(Mem)
          /\ UNCHANGED <<_next, choices, catches, retries, incomingStates,
                         branches, iteration, processor>>

AddRetry(s, errors) ==
  /\ last' = "addRetry"
  /\ UNCHANGED <<prefixes, props, scope, returned, job>>
  /\ UNCHANGED <<found, rendered>>
  /\ IF invalidErrors(errors) THEN Throw(ErrorsError) /\ UNCHANGED declared
     ELSE
       LET rule == [errors |-> errorsOrAll(errors)] IN
       /\ retries' = [retries EXCEPT ![s] = Append(@, rule)]
       /\ declared' = [declared EXCEPT ![s].retries = Append(@, rule)]
       /\ Commit(Mem)
       /\ UNCHANGED <<_next, defaultChoice, choices, catches,
                      incomingStates, branches, iteration, processor>>

AddCatch(s, handler, errors) ==
  /\ last' = "addCatch"
  /\ UNCHANGED <<prefixes, props, scope, returned, job>>
  /\ UNCHANGED <<found, rendered>>
  /\ IF invalidErrors(errors) THEN Throw(ErrorsError) /\ UNCHANGED declared
     ELSE
       LET rule == [next |-> handler, errors |-> errorsOrAll(errors)]
           h == [Heap EXCEPT
                   !.catches[s] = Append(@, rule),
                   !.incomingStates = addIncoming(@, handler, s)]
       IN  /\ catches' = h.catches
           /\ declared' = [declared EXCEPT ![s].catches = Append(@, rule)]
           /\ incomingStates' = h.incomingStates
           /\ Commit(propagate(Mem, h, s, handler))
           /\ UNCHANGED <<_next, defaultChoice, choices, retries,
                          branches, iteration, processor>>

\* the registration at attach time left out
attachNever(m, s, sub) == m

\* `if (this.containingGraph) { sub.registerSuperGraph(this.containingGraph) }'
attach(m, s, sub) ==
  IF m.containingGraph[s] # None
  THEN registerSuperGraph(m, sub, m.containingGraph[s])
  ELSE m

AddBranch(s, branch) ==
  /\ last' = "addBranch"
  /\ UNCHANGED <<prefixes, props, scope, returned, job>>
  /\ branches' = [branches EXCEPT ![s] = Append(@, branch)]
  /\ Commit(attach(Mem, s, branch))
  /\ UNCHANGED <<_next, defaultChoice, choices, catches, retries,
                 incomingStates, iteration, processor, found, rendered,
                 declared>>

AddIterator(s, sub) ==
  /\ last' = "addIterator"
  /\ UNCHANGED <<prefixes, props, scope, returned, job>>
  /\ iteration' = [iteration EXCEPT ![s] = sub]
  /\ Commit(attach(Mem, s, sub))
  /\ UNCHANGED <<_next, defaultChoice, choices, catches, retries,
                 incomingStates, branches, processor, found, rendered,
                 declared>>

AddItemProcessor(s, sub) ==
  /\ last' = "addItemProcessor"
  /\ UNCHANGED <<prefixes, props, scope, returned, job>>
  /\ processor' = [processor EXCEPT ![s] = sub]
  /\ Commit(attach(Mem, s, sub))
  /\ UNCHANGED <<_next, defaultChoice, choices, catches, retries,
                 incomingStates, branches, iteration, found, rendered,
                 declared>>

----------------------------------------------------------------------------
(* Reachability *)

\* `options.includeErrorHandlers', which a caller may leave out
truthy(option) == option = "true"

\* `visited.has(state)' forgotten
hasVisitedNever(visited, state) == FALSE

hasVisited(visited, state) == state \in visited

\* Set.add: insertion order, no duplicates
setAdd(ret, x) == IF x \in SeqToSet(ret) THEN ret ELSE Append(ret, x)

RECURSIVE reachableLoop(_, _, _, _, _, _)
reachableLoop(h, option, queue, visited, ret, n) ==
  IF queue = <<>> THEN [result |-> ret, ended |-> TRUE]
  ELSE IF n >= MaxIterations THEN [result |-> ret, ended |-> FALSE]
  ELSE
    LET state == Head(queue) IN
    IF hasVisited(visited, state)
    THEN reachableLoop(h, option, Tail(queue), visited, ret, n + 1)
    ELSE reachableLoop(h, option,
           Tail(queue) \o outgoingTransitions(h, state, truthy(option)),
           visited \cup {state}, setAdd(ret, state), n + 1)

findReachableStates(h, start, option) ==
  reachableLoop(h, option, <<start>>, {}, <<>>, 0)

\* `outgoing.length > 0' taken for `>= 0': no state is terminal
isTerminalNever(outgoing) == FALSE

isTerminal(outgoing) == ~(Len(outgoing) > 0)

RECURSIVE reachableEndLoop(_, _, _, _, _, _)
reachableEndLoop(h, option, queue, visited, ret, n) ==
  IF queue = <<>> THEN [result |-> ret, ended |-> TRUE]
  ELSE IF n >= MaxIterations THEN [result |-> ret, ended |-> FALSE]
  ELSE
    LET state == Head(queue)
        outgoing == outgoingTransitions(h, state, truthy(option))
    IN
    IF hasVisited(visited, state)
    THEN reachableEndLoop(h, option, Tail(queue), visited, ret, n + 1)
    ELSE IF isTerminal(outgoing)
    THEN reachableEndLoop(h, option, Tail(queue), visited \cup {state},
                          setAdd(ret, state), n + 1)
    ELSE reachableEndLoop(h, option, Tail(queue) \o outgoing,
                          visited \cup {state}, ret, n + 1)

findReachableEndStates(h, start, option) ==
  reachableEndLoop(h, option, <<start>>, {}, <<>>, 0)

\* a call that changes no object and returns
Pure ==
  /\ thrown' = NoError
  /\ bindCalls' = 0
  /\ bodyRuns' = 0
  /\ UNCHANGED <<_next, defaultChoice, choices, catches, retries,
                 incomingStates, containingGraph, branches, iteration,
                 processor, allStates, superGraph, registerStateCalls,
                 registerSuperGraphCalls, declared>>

FindReachableStates(start, option) ==
  /\ last' = "findReachableStates"
  /\ UNCHANGED <<prefixes, props, scope, returned, job>>
  /\ LET r == findReachableStates(Heap, start, option) IN
     found' = [start |-> start, includeErrorHandlers |-> option,
               result |-> r.result, ended |-> r.ended]
  /\ Pure
  /\ UNCHANGED rendered

FindReachableEndStates(start, option) ==
  /\ last' = "findReachableEndStates"
  /\ UNCHANGED <<prefixes, props, scope, returned, job>>
  /\ LET r == findReachableEndStates(Heap, start, option) IN
     found' = [start |-> start, includeErrorHandlers |-> option,
               result |-> r.result, ended |-> r.ended]
  /\ Pure
  /\ UNCHANGED rendered

----------------------------------------------------------------------------
(* Rendering of the retry and catch lists *)

\* the comparison never moves a rule
compareErrorsEqual(a, b) == 0

compareErrors(a, b) ==
  IF includes(a, ALL) THEN 1
  ELSE IF includes(b, ALL) THEN -1
  ELSE 0

\* the sortFn of renderRetryCatch, for retry rules and catch transitions
byErrors(x, y) == compareErrors(x.errors, y.errors)

(* xs.sort(sortFn) as the engine computes it for a list shorter than 64   *)
(* elements: the leading run is found (and reversed when it descends),    *)
(* then every later element is placed by a binary search over the sorted  *)
(* prefix.                                                                *)

reverseRange(xs, n) ==
  [i \in 1..Len(xs) |-> IF i <= n THEN xs[n + 1 - i] ELSE xs[i]]

RECURSIVE runEnd(_, _, _)
runEnd(xs, idx, descending) ==
  IF idx = Len(xs) THEN idx
  ELSE LET order == byErrors(xs[idx + 1], xs[idx]) IN
       IF (descending /\ order >= 0) \/ (~descending /\ order < 0) THEN idx
       ELSE runEnd(xs, idx + 1, descending)

countAndMakeRun(xs) ==
  LET descending == byErrors(xs[2], xs[1]) < 0
      n == runEnd(xs, 2, descending)
  IN  [list |-> IF descending THEN reverseRange(xs, n) ELSE xs, length |-> n]

\* the search that places every pivot at the front
binarySearchFront(xs, pivot, left, right) == left

RECURSIVE binarySearch(_, _, _, _)
binarySearch(xs, pivot, left, right) ==
  IF left >= right THEN left
  ELSE LET mid == left + ((right - left) \div 2) IN
       IF byErrors(pivot, xs[mid]) < 0
       THEN binarySearch(xs, pivot, left, mid)
       ELSE binarySearch(xs, pivot, mid + 1, right)

insertAt(xs, start, left) ==
  [i \in 1..Len(xs) |->
     IF i < left THEN xs[i]
     ELSE IF i = left THEN xs[start]
     ELSE IF i <= start THEN xs[i - 1]
     ELSE xs[i]]

RECURSIVE binaryInsertionSort(_, _)
binaryInsertionSort(xs, start) ==
  IF start > Len(xs) THEN xs
  ELSE binaryInsertionSort(
         insertAt(xs, start, binarySearch(xs, xs[start], 1, start)),
         start + 1)

\* the list is left in the order it has
sortNever(xs) == xs

sort(xs) ==
  IF Len(xs) < 2 THEN xs
  ELSE LET run == countAndMakeRun(xs) IN
       binaryInsertionSort(run.list, run.length + 1)

\* a field left out of the document
Absent == [present |-> FALSE, list |-> <<>>]

renderRetry(retry) == [ErrorEquals |-> retry.errors]

renderCatch(c) == [ErrorEquals |-> c.errors, Next |-> stateId(c.next)]

\* the check for an empty list left out of renderList
emptyListNever(xs) == FALSE

\* `if (xs.length === 0) { return undefined; }'
emptyList(xs) == Len(xs) = 0

\* renderList(this.retries, renderRetry, sortFn), xs sorted in place
renderRetries(xs) ==
  IF emptyList(xs) THEN Absent
  ELSE [present |-> TRUE,
        list |-> [i \in 1..Len(xs) |-> renderRetry(sort(xs)[i])]]

\* renderList(this.catches, renderCatch, sortFn), xs sorted in place
renderCatches(xs) ==
  IF emptyList(xs) THEN Absent
  ELSE [present |-> TRUE,
        list |-> [i \in 1..Len(xs) |-> renderCatch(sort(xs)[i])]]

RenderRetryCatch(s) ==
  /\ last' = "renderRetryCatch"
  /\ UNCHANGED <<prefixes, props, scope, returned, job>>
  /\ rendered' = [state |-> s,
                  Retry |-> renderRetries(retries[s]),
                  Catch |-> renderCatches(catches[s])]
  /\ retries' = [retries EXCEPT ![s] = sort(@)]
  /\ catches' = [catches EXCEPT ![s] = sort(@)]
  /\ thrown' = NoError
  /\ bindCalls' = 0
  /\ bodyRuns' = 0
  /\ UNCHANGED <<_next, defaultChoice, choices, incomingStates,
                 containingGraph, branches, iteration, processor, allStates,
                 superGraph, registerStateCalls, registerSuperGraphCalls,
                 found, declared>>

\* the condition and the target; no comment, outputs or assign is declared,
\* so the fields that depend on the query language are left out
renderChoice(c, queryLanguage) ==
  [Condition |-> c.condition, Next |-> stateId(c.next)]

\* the branches rendered last to first
renderChoiceListReversed(xs, queryLanguage) ==
  IF emptyList(xs) THEN Absent
  ELSE [present |-> TRUE,
        list |-> [i \in 1..Len(xs) |->
                    renderChoice(xs[Len(xs) + 1 - i], queryLanguage)]]

\* renderList(this.choices, (x) => renderChoice(x, queryLanguage))
renderChoiceList(xs, queryLanguage) ==
  IF emptyList(xs) THEN Absent
  ELSE [present |-> TRUE,
        list |-> [i \in 1..Len(xs) |-> renderChoice(xs[i], queryLanguage)]]

\* `this.defaultChoice?.stateId'
renderDefault(s) ==
  IF defaultChoice[s] # None
  THEN [present |-> TRUE, value |-> stateId(defaultChoice[s])]
  ELSE [present |-> FALSE, value |-> <<>>]

RenderChoices(s, topLevelQueryLanguage) ==
  /\ last' = "renderChoices"
  /\ LET queryLanguage ==
           _getActualQueryLanguage(topLevelQueryLanguage,
                                   props[s].queryLanguage)
     IN  returned' = [call |-> "renderChoices", state |-> s,
                      Choices |-> renderChoiceList(choices[s], queryLanguage),
                      Default |-> renderDefault(s)]
  /\ Pure
  /\ UNCHANGED <<found, rendered, prefixes, props, scope, job>>

\* `if (x !== '') { this.prefixes.splice(0, 0, x); }'
addPrefix(pre, s, x) ==
  IF x # <<>> THEN [pre EXCEPT ![s] = spliceFront(@, x)] ELSE pre

AddPrefix(s, x) ==
  /\ last' = "addPrefix"
  /\ prefixes' = addPrefix(prefixes, s, x)
  /\ Pure
  /\ UNCHANGED <<found, rendered, props, scope, returned, job>>

\* a call that assigns no field and ends with e (NoError: it returns)
Outcome(e) == Throw(e) /\ UNCHANGED declared

\* a read of the stateId getter
StateId(s) ==
  /\ last' = "stateId"
  /\ returned' = [call |-> "stateId", state |-> s, value |-> stateId(s)]
  /\ Outcome(NoError)
  /\ UNCHANGED <<found, rendered, prefixes, props, scope, job>>

\* every string passes for one that starts with the character
startsWithAlways(str, ch) == TRUE

startsWith(str, ch) == Len(str) > 0 /\ str[1] = ch

\* what renderJsonPath does with its argument
renderJsonPath(jsonPath) ==
  IF jsonPath = Undefined
  THEN [thrown |-> FALSE, present |-> FALSE, value |-> <<>>]
  ELSE IF ~isUnresolved(jsonPath) /\ ~startsWith(jsonPath, "$")
  THEN [thrown |-> TRUE, present |-> FALSE, value |-> <<>>]
  ELSE [thrown |-> FALSE, present |-> TRUE, value |-> jsonPath]

RenderJsonPath(jsonPath) ==
  /\ last' = "renderJsonPath"
  /\ LET r == renderJsonPath(jsonPath) IN
     /\ returned' = [call |-> "renderJsonPath", argument |-> jsonPath,
                     present |-> r.present, value |-> r.value]
     /\ Outcome(IF r.thrown THEN PathError ELSE NoError)
  /\ UNCHANGED <<found, rendered, prefixes, props, scope, job>>

\* no member is ever put into the fragment
memberNever(value) == [present |-> FALSE, value |-> <<>>]

\* a member of the returned object: an undefined one is left out of the
\* document
member(value) ==
  IF value = Undefined THEN [present |-> FALSE, value |-> <<>>]
  ELSE [present |-> TRUE, value |-> value]

\* InputPath is rendered before OutputPath; Parameters, Arguments and Output
\* are the fields of the state as they are
RenderInputOutput(s) ==
  /\ last' = "renderInputOutput"
  /\ LET i == renderJsonPath(props[s].inputPath)
         o == renderJsonPath(props[s].outputPath)
     IN  IF i.thrown \/ o.thrown
         THEN /\ returned' = [call |-> "renderInputOutput", state |-> s]
              /\ Outcome(PathError)
         ELSE /\ returned' =
                   [call |-> "renderInputOutput", state |-> s,
                    InputPath |-> [present |-> i.present, value |-> i.value],
                    Parameters |-> member(props[s].parameters),
                    OutputPath |-> [present |-> o.present, value |-> o.value],
                    Arguments |-> member(props[s].arguments),
                    Output |-> member(props[s].outputs)]
              /\ Outcome(NoError)
  /\ UNCHANGED <<found, rendered, prefixes, props, scope, job>>

\* an unset root dialect left unset
orJsonPathNever(topLevelQueryLanguage) == topLevelQueryLanguage

\* `topLevelQueryLanguage ?? QueryLanguage.JSON_PATH'
orJsonPath(topLevelQueryLanguage) ==
  IF topLevelQueryLanguage # None THEN topLevelQueryLanguage ELSE JSON_PATH

\* a node that differs from the root is refused in both directions
dialectConflictBothWays(topLevelQueryLanguage, queryLanguage) ==
  /\ queryLanguage # None
  /\ topLevelQueryLanguage # queryLanguage

\* the condition of line 590, after the default was applied
dialectConflict(topLevelQueryLanguage, queryLanguage) ==
  topLevelQueryLanguage = JSONATA /\ queryLanguage = JSON_PATH

RenderQueryLanguage(s, topLevelQueryLanguage) ==
  /\ last' = "renderQueryLanguage"
  /\ LET top == orJsonPath(topLevelQueryLanguage) IN
     IF dialectConflict(top, props[s].queryLanguage)
     THEN /\ returned' = [call |-> "renderQueryLanguage", state |-> s,
                          topLevelQueryLanguage |-> topLevelQueryLanguage]
          /\ Outcome(QueryLanguageError(s))
     ELSE /\ returned' =
               [call |-> "renderQueryLanguage", state |-> s,
                topLevelQueryLanguage |-> topLevelQueryLanguage,
                QueryLanguage |->
                  IF top = JSON_PATH /\ props[s].queryLanguage = JSONATA
                  THEN JSONATA ELSE None]
          /\ Outcome(NoError)
  /\ UNCHANGED <<found, rendered, prefixes, props, scope, job>>

GetActualQueryLanguage(topLevelQueryLanguage, stateLevelQueryLanguage) ==
  /\ last' = "_getActualQueryLanguage"
  /\ returned' = [call |-> "_getActualQueryLanguage",
                  topLevelQueryLanguage |-> topLevelQueryLanguage,
                  stateLevelQueryLanguage |-> stateLevelQueryLanguage,
                  value |-> _getActualQueryLanguage(topLevelQueryLanguage,
                                                    stateLevelQueryLanguage)]
  /\ Outcome(NoError)
  /\ UNCHANGED <<found, rendered, prefixes, props, scope, job>>

\* the states in the order of their construction
Created == <<"a", "b", "c">>

\* `Node.of(el).children': the constructs created in el, oldest first
childrenOf(el) ==
  LET createdIn(s) == scope[s] = el IN SelectSeq(Created, createdIn)

\* only the states have an addPrefix method
isPrefixable(el) == el \in States

RECURSIVE prefixLoop(_, _, _, _)
prefixLoop(pre, queue, prefix, n) ==
  IF queue = <<>> THEN [prefixes |-> pre, ended |-> TRUE]
  ELSE IF n >= MaxIterations THEN [prefixes |-> pre, ended |-> FALSE]
  ELSE
    LET el == Head(queue) IN
    prefixLoop(IF isPrefixable(el) THEN addPrefix(pre, el, prefix) ELSE pre,
               Tail(queue) \o childrenOf(el), prefix, n + 1)

prefixStates(root, prefix) == prefixLoop(prefixes, <<root>>, prefix, 0)

PrefixStates(root, prefix) ==
  /\ last' = "prefixStates"
  /\ LET r == prefixStates(root, prefix) IN
     /\ prefixes' = r.prefixes
     /\ returned' = [call |-> "prefixStates", root |-> root,
                     prefix |-> prefix, ended |-> r.ended]
  /\ Pure
  /\ UNCHANGED <<found, rendered, props, scope, job>>

\* new BatchSubmitJob(scope, id, p); dependsOn, containerOverrides and tags
\* are left out of the props, so their checks pass
NewBatchSubmitJob(p) ==
  /\ last' = "BatchSubmitJob"
  /\ job' = [constructed |-> constructorOutcome(p) = NoError, props |-> p]
  /\ returned' = [call |-> "BatchSubmitJob"]
  /\ Outcome(constructorOutcome(p))
  /\ UNCHANGED <<found, rendered, prefixes, props, scope>>

\* the fields of _renderTask that come from arraySize, attempts and the
\* timeouts
RenderTask ==
  /\ job.constructed
  /\ last' = "_renderTask"
  /\ LET timeout == renderedTimeout(job.props) IN
     returned' =
       [call |-> "_renderTask",
        ArrayProperties |->
          [present |-> job.props.arraySize.defined,
           Size |-> job.props.arraySize],
        RetryStrategy |->
          [present |-> job.props.attempts.defined,
           Attempts |-> job.props.attempts],
        Timeout |->
          [present |-> truthyNumber(timeout),
           AttemptDurationSeconds |-> timeout]]
  /\ Outcome(NoError)
  /\ UNCHANGED <<found, rendered, prefixes, props, scope, job>>

----------------------------------------------------------------------------
(* The sizes the bounds limit *)

NumTransitions ==
  SumOver(States, [s \in States |->
     Count(_next[s] # None) + Count(defaultChoice[s] # None)
       + Len(choices[s]) + Len(catches[s])])

NumSubGraphs ==
  SumOver(States, [s \in States |->
     Len(branches[s]) + Count(iteration[s] # None)
       + Count(processor[s] # None)])

NumRules ==
  SumOver(States, [s \in States |-> Len(retries[s]) + Len(catches[s])])

----------------------------------------------------------------------------
(* The graph-binding protocol: transitions are declared and states are     *)
(* bound, in any order.                                                    *)

Conditions == {"c1"}

Declaring == NumTransitions < MaxTransitions

DoBindToGraph == \E s \in States, g \in Graphs : BindToGraph(s, g)

DoMakeNext == \E s \in States, t \in States : Declaring /\ MakeNext(s, t)

DoAddChoice ==
  \E s \in States, t \in States, c \in Conditions :
    Declaring /\ AddChoice(s, c, t)

DoMakeDefault ==
  \E s \in States, t \in States : Declaring /\ MakeDefault(s, t)

DoAddCatch ==
  \E s \in States, t \in States : Declaring /\ AddCatch(s, t, Omitted)

Next ==
  \/ DoBindToGraph
  \/ DoMakeNext
  \/ DoAddChoice
  \/ DoMakeDefault
  \/ DoAddCatch

Spec == Init /\ [][Next]_vars

\* the runs in which no call throws
Returns == thrown'.kind = "none"

NextOk ==
  \/ DoBindToGraph /\ Returns
  \/ DoMakeNext /\ Returns
  \/ DoAddChoice /\ Returns
  \/ DoMakeDefault /\ Returns
  \/ DoAddCatch /\ Returns

SpecOk == Init /\ [][NextOk]_vars

----------------------------------------------------------------------------
(* Sub-graphs: state a carries the parallel branches, the iterator and the *)
(* item processor; the states are chained by makeNext.                     *)

Attaching == NumSubGraphs < MaxSubGraphs

DoAddBranch == \E g \in Graphs : Attaching /\ AddBranch("a", g)

DoAddIterator == \E g \in Graphs : Attaching /\ AddIterator("a", g)

DoAddItemProcessor ==
  \E g \in Graphs : Attaching /\ AddItemProcessor("a", g)

NextSub ==
  \/ DoBindToGraph
  \/ DoMakeNext
  \/ DoAddBranch
  \/ DoAddIterator
  \/ DoAddItemProcessor

SpecSub == Init /\ [][NextSub]_vars

----------------------------------------------------------------------------
(* Reachability over the transition graphs the declarations build *)

Options == {"undefined", "false", "true"}

DoFindReachableStates ==
  \E s \in States, o \in Options : FindReachableStates(s, o)

DoFindReachableEndStates ==
  \E s \in States, o \in Options : FindReachableEndStates(s, o)

NextFind ==
  \/ DoMakeNext
  \/ DoAddChoice
  \/ DoMakeDefault
  \/ DoAddCatch
  \/ DoFindReachableStates
  \/ DoFindReachableEndStates

SpecFind == Init /\ [][NextFind]_vars

----------------------------------------------------------------------------
(* Retry rules and catch handlers: state a declares them, with b as the   *)
(* handler; states are bound and a is rendered at any time.               *)

ErrorInputs ==
  {Omitted, <<ALL>>, <<TASK_FAILED>>, <<TIMEOUT>>,
   <<ALL, ALL>>, <<ALL, TASK_FAILED>>, <<TASK_FAILED, ALL>>}

DeclaringRules == NumRules < MaxRules

DoAddRetry == \E e \in ErrorInputs : DeclaringRules /\ AddRetry("a", e)

DoAddCatchRule ==
  \E e \in ErrorInputs : DeclaringRules /\ AddCatch("a", "b", e)

DoRenderRetryCatch == RenderRetryCatch("a")

NextRender ==
  \/ DoAddRetry
  \/ DoAddCatchRule
  \/ DoBindToGraph
  \/ DoRenderRetryCatch

SpecRender == Init /\ [][NextRender]_vars

----------------------------------------------------------------------------
(* Properties of the graph-binding protocol *)

HasNext(s, t) == _next[s] = t
HasDefault(s, t) == defaultChoice[s] = t
HasChoice(s, t) == \E i \in 1..Len(choices[s]) : choices[s][i].next = t
HasCatch(s, t) == \E i \in 1..Len(catches[s]) : catches[s][i].next = t

\* a transition of any type from s to t is declared
Transition(s, t) ==
  HasNext(s, t) \/ HasDefault(s, t) \/ HasChoice(s, t) \/ HasCatch(s, t)

Bound(s) == containingGraph[s] # None

\* C1: for a transition a -> b of any type (next, choice, default-choice,
\* catch) declared while both are unbound, a bindToGraph(G) on either end
\* that returns leaves the other end bound to G.
C1_BindReachesBothEnds ==
  [][\A s \in States, t \in States, g \in Graphs :
       ( /\ Transition(s, t) \/ Transition(t, s)
         /\ ~Bound(s) /\ ~Bound(t)
         /\ BindToGraph(s, g)
         /\ Returns )
       => containingGraph'[t] = g]_vars

objects ==
  <<_next, defaultChoice, choices, catches, retries, incomingStates,
    containingGraph, branches, iteration, processor, allStates, superGraph,
    registerStateCalls, registerSuperGraphCalls>>

\* C3: bindToGraph(G2) on a state bound to another graph G1 throws the
\* validation error naming the state and both graphs; the state stays in G1
\* and is not registered into G2 (nothing changes).
C3_RebindElsewhereFails ==
  [][\A s \in States, g \in Graphs :
       Bound(s) /\ containingGraph[s] # g /\ BindToGraph(s, g)
         => /\ thrown' = GraphError(s, g, containingGraph[s])
            /\ containingGraph'[s] = containingGraph[s]
            /\ s \notin allStates'[g]
            /\ UNCHANGED objects]_vars

C3_Witness ==
  /\ last = "bindToGraph" /\ thrown.kind = "graph" /\ bodyRuns = 0
  /\ thrown.graph # thrown.existing
  /\ containingGraph[thrown.state] = thrown.existing
  /\ thrown.state \in allStates[thrown.existing]
  /\ thrown.state \notin allStates[thrown.graph]

\* C4: bindToGraph(G) on a state already bound to G returns at once: no
\* error, no whenBoundToGraph, no registerState, no call on another state
\* or on a sub-graph, and nothing changes.
C4_RebindSameIsNoOp ==
  [][\A s \in States, g \in Graphs :
       containingGraph[s] = g /\ BindToGraph(s, g)
         => /\ Returns
            /\ bindCalls' = 1 /\ bodyRuns' = 0
            /\ UNCHANGED objects]_vars

\* the only bound state has an unbound state pointing at it and a sub-graph
\* attached, and is bound again to its graph
C4_Witness ==
  /\ last = "bindToGraph" /\ thrown.kind = "none"
  /\ bindCalls = 1 /\ bodyRuns = 0
  /\ registerSuperGraphCalls = 1
  /\ \E s \in States :
       /\ \A t \in States : Bound(t) <=> t = s
       /\ \E t \in States : HasNext(t, s) /\ t # s
       /\ subGraphsOf(Heap, s) # <<>>

\* C5: whatever is called and whether it returns or throws, a state's
\* containingGraph, once set, keeps its value.
C5_MembershipIsTerminal ==
  [][\A s \in States : Bound(s) => containingGraph'[s] = containingGraph[s]]_vars

\* a call that bound a state to one graph before it threw on a state that
\* is in the other graph
C5_Witness ==
  /\ thrown.kind = "graph" /\ bodyRuns >= 1
  /\ containingGraph[thrown.state] = thrown.existing
  /\ \E s \in States : containingGraph[s] = thrown.graph

NumEdges ==
  SumOver(States, [s \in States |->
     Len(incomingStates[s]) + Len(outgoingTransitions(Heap, s, TRUE))])

\* C6: bindToGraph ends on every transition graph, cyclic ones included: the
\* recursion never exhausts the stack, runs the binding body of a state at
\* most once, and makes at most one call per end of a transition.
C6_BindTerminates ==
  /\ thrown.kind # "range"
  /\ \A s \in States : registerStateCalls[s] <= 1
  /\ bodyRuns <= Cardinality(States)
  /\ bindCalls <= 1 + NumEdges

\* one call bound the two states of a cycle a -> b -> a
C6_Witness ==
  /\ last = "bindToGraph" /\ thrown.kind = "none" /\ bodyRuns = 2
  /\ \E s \in States, t \in States :
       s # t /\ Transition(s, t) /\ Transition(t, s) /\ Bound(s) /\ Bound(t)

----------------------------------------------------------------------------
(* Properties of reachability *)

Successors(s, errorHandlers) ==
  {t \in States :
     \/ HasNext(s, t) \/ HasDefault(s, t) \/ HasChoice(s, t)
     \/ (errorHandlers /\ HasCatch(s, t))}

RECURSIVE Closure(_, _)
Closure(S, errorHandlers) ==
  LET N == S \cup UNION {Successors(s, errorHandlers) : s \in S} IN
  IF N = S THEN S ELSE Closure(N, errorHandlers)

\* the start state and every state some chain of transitions leads to
Reachable(start, errorHandlers) == Closure({start}, errorHandlers)

NoDuplicates(q) == \A i, j \in 1..Len(q) : q[i] = q[j] => i = j

\* C7: findReachableStates returns, and its result holds exactly the start
\* state and the states reachable from it by next, default, choice and (when
\* error handlers are included) catch transitions, each once, cycles included.
C7_ReachableStates ==
  last = "findReachableStates" =>
    /\ found.ended
    /\ NoDuplicates(found.result)
    /\ SeqToSet(found.result) =
         Reachable(found.start, found.includeErrorHandlers = "true")

\* the cycle a -> b -> a, searched from a: the result is a and b, once each
C7_Witness ==
  /\ last = "findReachableStates"
  /\ found.start = "a"
  /\ _next["a"] = "b"
  /\ _next["b"] = "a"
  /\ Len(found.result) = 2
  /\ SeqToSet(found.result) = {"a", "b"}

\* C8: findReachableEndStates returns, and its result holds exactly the
\* reachable states without an outgoing transition of the kinds followed,
\* each once: a state whose only transitions are catch handlers is an end
\* state unless error handlers are included, and a start state on a cycle
\* that no transition leaves gives the empty result.
C8_ReachableEndStates ==
  last = "findReachableEndStates" =>
    LET eh == found.includeErrorHandlers = "true" IN
    /\ found.ended
    /\ NoDuplicates(found.result)
    /\ SeqToSet(found.result) =
         {s \in Reachable(found.start, eh) : Successors(s, eh) = {}}
    /\ (\A s \in Reachable(found.start, eh) :
          (catches[s] # <<>> /\ Successors(s, FALSE) = {} /\ ~eh)
            => s \in SeqToSet(found.result))
    /\ ((\A s \in Reachable(found.start, eh) : Successors(s, eh) # {})
          => found.result = <<>>)

\* a is reached from c, has a catch handler and nothing else, and is
\* reported as an end state when error handlers are not included
C8_Witness ==
  /\ last = "findReachableEndStates"
  /\ found.start = "c"
  /\ found.includeErrorHandlers # "true"
  /\ _next["c"] = "a"
  /\ catches["a"] # <<>>
  /\ found.result = <<"a">>

----------------------------------------------------------------------------
(* Properties of the retry and catch lists *)

IsWildcard(rule) == ALL \in SeqToSet(rule.ErrorEquals)

WildcardsLast(list) ==
  \A i, j \in 1..Len(list) :
    (i < j /\ IsWildcard(list[i])) => IsWildcard(list[j])

\* C9: in the Retry and Catch lists renderRetryCatch produces, every rule
\* that matches the wildcard comes after every rule that does not, whatever
\* the order of declaration and however many wildcard rules there are; every
\* declared rule is rendered.
C9_WildcardsRenderedLast ==
  last = "renderRetryCatch" =>
    /\ WildcardsLast(rendered.Retry.list)
    /\ WildcardsLast(rendered.Catch.list)
    /\ Len(rendered.Retry.list) = Len(declared[rendered.state].retries)
    /\ Len(rendered.Catch.list) = Len(declared[rendered.state].catches)

\* declared wildcard, non-wildcard, wildcard: rendered non-wildcard first
C9_Witness ==
  /\ last = "renderRetryCatch"
  /\ rendered.state = "a"
  /\ Len(declared["a"].retries) = 3
  /\ declared["a"].retries[1].errors = <<ALL>>
  /\ declared["a"].retries[2].errors = <<TIMEOUT>>
  /\ declared["a"].retries[3].errors = <<ALL>>
  /\ rendered.Retry.list =
       <<[ErrorEquals |-> <<TIMEOUT>>], [ErrorEquals |-> <<ALL>>],
         [ErrorEquals |-> <<ALL>>]>>

\* the wildcard together with at least one other entry
WildcardWithOthers(errors) ==
  /\ errors # Omitted
  /\ ALL \in SeqToSet(errors)
  /\ Len(errors) >= 2

Stored(errors) == IF errors = Omitted THEN <<ALL>> ELSE errors

ObjectsUnchanged ==
  UNCHANGED <<_next, defaultChoice, choices, catches, retries, incomingStates,
              containingGraph, branches, iteration, processor, allStates,
              superGraph, registerStateCalls, registerSuperGraphCalls>>

\* C10: _addRetry and _addCatch fail exactly when the error list holds the
\* wildcard together with at least one other entry (a second wildcard
\* included), and then change nothing; a list of the wildcard alone, and an
\* omitted list (which stands for the wildcard alone), are accepted and the
\* rule is appended.
C10_WildcardMustStandAlone ==
  [][\A s, t \in States : \A e \in ErrorInputs :
       /\ AddRetry(s, e) =>
            IF WildcardWithOthers(e)
            THEN thrown'.kind = "errors" /\ ObjectsUnchanged
            ELSE /\ thrown'.kind = "none"
                 /\ retries'[s] = Append(retries[s], [errors |-> Stored(e)])
       /\ AddCatch(s, t, e) =>
            IF WildcardWithOthers(e)
            THEN thrown'.kind = "errors" /\ ObjectsUnchanged
            ELSE /\ thrown'.kind # "errors"
                 /\ catches'[s] =
                      Append(catches[s], [next |-> t, errors |-> Stored(e)])
    ]_vars

\* a bound state with rules already declared has just refused a list
C10_Witness ==
  /\ thrown.kind = "errors"
  /\ last = "addCatch"
  /\ Bound("a")
  /\ retries["a"] # <<>>
  /\ catches["a"] # <<>>

----------------------------------------------------------------------------
(* The lists of state a: choice branches, retry rules and catch handlers  *)
(* are declared and the lists are rendered at any time.                   *)

\* at most this many choice branches are declared
MaxChoices == 2

QueryLanguages == {None, JSON_PATH, JSONATA}

DoAddChoiceToB ==
  Len(choices["a"]) < MaxChoices /\ AddChoice("a", "c1", "b")

DoAddRetryRule == DeclaringRules /\ AddRetry("a", Omitted)

DoAddCatchHandler == DeclaringRules /\ AddCatch("a", "b", Omitted)

DoRenderChoices == \E q \in QueryLanguages : RenderChoices("a", q)

NextLists ==
  \/ DoAddChoiceToB
  \/ DoAddRetryRule
  \/ DoAddCatchHandler
  \/ DoRenderChoices
  \/ DoRenderRetryCatch

SpecLists == Init /\ [][NextLists]_vars

\* a rendered list: left out when nothing was declared, else one entry each
OneEntryEach(field, declaredList) ==
  /\ field.present <=> declaredList # <<>>
  /\ field.present => Len(field.list) = Len(declaredList)
  /\ ~field.present => field.list = <<>>

\* C11: renderRetryCatch leaves Retry out when no retry rule was declared and
\* Catch out when no catch handler was declared, and renderChoices leaves
\* Choices out when no choice branch was declared; none of them is ever an
\* empty list, and a list that is rendered has one entry per declared element.
C11_EmptyListsAreAbsent ==
  /\ last = "renderRetryCatch" =>
       /\ OneEntryEach(rendered.Retry, declared[rendered.state].retries)
       /\ OneEntryEach(rendered.Catch, declared[rendered.state].catches)
  /\ last = "renderChoices" =>
       OneEntryEach(returned.Choices, choices[returned.state])

\* a state with two catch handlers and no retry rule and no choice branch
C11_Witness ==
  /\ last = "renderRetryCatch"
  /\ rendered.state = "a"
  /\ declared["a"].retries = <<>>
  /\ ~rendered.Retry.present
  /\ Len(rendered.Catch.list) = 2
  /\ choices["a"] = <<>>
  /\ returned.call = "renderChoices"
  /\ ~returned.Choices.present

----------------------------------------------------------------------------
(* State a is constructed with any query language and any input and       *)
(* output path; its fragments are rendered under every root dialect.      *)

Foo == <<"f", "o", "o">>
DollarFoo == <<"$", ".", "f", "o", "o">>

Paths ==
  {Undefined, <<>>, Foo, DollarFoo, <<"$">>,
   <<TokenMarker>>, <<"f", TokenMarker>>}

Objects == {Undefined, AnObject}

InitProps ==
  /\ Fields
  /\ \E q \in QueryLanguages, i \in Paths, o \in Paths,
        p \in Objects, a \in Objects, u \in Objects :
       props = [s \in States |->
                  IF s = "a"
                  THEN [NoProps EXCEPT !.queryLanguage = q,
                                       !.inputPath = i, !.outputPath = o,
                                       !.parameters = p, !.arguments = a,
                                       !.outputs = u]
                  ELSE NoProps]
  /\ scope = [s \in States |-> Root]

DoRenderJsonPath == \E p \in Paths : RenderJsonPath(p)

DoRenderInputOutput == RenderInputOutput("a")

DoRenderQueryLanguage ==
  \E q \in QueryLanguages : RenderQueryLanguage("a", q)

DoGetActualQueryLanguage ==
  \E q, n \in QueryLanguages : GetActualQueryLanguage(q, n)

NextProps ==
  \/ DoRenderJsonPath
  \/ DoRenderInputOutput
  \/ DoRenderQueryLanguage
  \/ DoGetActualQueryLanguage

SpecProps == InitProps /\ [][NextProps]_vars

\* a defined, resolved string that does not start with '$'
Refused(path) ==
  /\ path # Undefined
  /\ \A i \in 1..Len(path) : path[i] # TokenMarker
  /\ (path = <<>> \/ path[1] # "$")

\* C12: renderJsonPath fails iff its argument is defined, holds no unresolved
\* token and does not start with '$'; undefined is rendered as absent and
\* every accepted string is returned unchanged; renderInputOutput applies
\* this to InputPath and OutputPath.
C12_JsonPathMustStartWithDollar ==
  /\ last = "renderJsonPath" =>
       LET p == returned.argument IN
       /\ thrown.kind = "path" <=> Refused(p)
       /\ thrown.kind \in {"path", "none"}
       /\ p = Undefined => ~returned.present
       /\ (p # Undefined /\ ~Refused(p)) =>
            (returned.present /\ returned.value = p)
  /\ last = "renderInputOutput" =>
       LET i == props[returned.state].inputPath
           o == props[returned.state].outputPath
       IN  /\ thrown.kind = "path" <=> (Refused(i) \/ Refused(o))
           /\ thrown.kind = "none" =>
                /\ returned.InputPath.present <=> i # Undefined
                /\ returned.InputPath.present => returned.InputPath.value = i
                /\ returned.OutputPath.present <=> o # Undefined
                /\ returned.OutputPath.present =>
                     returned.OutputPath.value = o

\* "foo" has just been refused
C12_Witness ==
  /\ last = "renderJsonPath"
  /\ returned.argument = Foo
  /\ thrown = PathError

\* C13: renderQueryLanguage fails iff the root dialect is JSONata and the
\* dialect of the state is JSONPath; in the eight other combinations it
\* returns, with the JSONata marker iff the root is JSONPath (or unset) and
\* the state is JSONata; the call changes nothing, so that calling it again
\* gives the same outcome.
C13_OnlyJsonPathUnderJsonataFails ==
  [][\A s \in States : \A q \in QueryLanguages :
       RenderQueryLanguage(s, q) =>
         LET n == props[s].queryLanguage IN
         /\ thrown'.kind = "queryLanguage" <=> (q = JSONATA /\ n = JSON_PATH)
         /\ thrown'.kind \in {"queryLanguage", "none"}
         /\ thrown'.kind = "none" =>
              returned'.QueryLanguage =
                (IF q \in {None, JSON_PATH} /\ n = JSONATA
                 THEN JSONATA ELSE None)
         /\ UNCHANGED <<props, prefixes, scope>>
         /\ ObjectsUnchanged
    ]_vars

\* the failure has just been raised
C13_Witness ==
  /\ last = "renderQueryLanguage"
  /\ returned.topLevelQueryLanguage = JSONATA
  /\ props["a"].queryLanguage = JSON_PATH
  /\ thrown = QueryLanguageError("a")

\* C14: _getActualQueryLanguage returns the dialect of the state when it is
\* set, otherwise the dialect of the root when it is set, otherwise JSONPath,
\* and never fails: for a JSONata root and a JSONPath state it returns
\* JSONPath.
C14_NodeDialectWins ==
  last = "_getActualQueryLanguage" =>
    LET q == returned.topLevelQueryLanguage
        n == returned.stateLevelQueryLanguage
    IN  /\ thrown = NoError
        /\ n # None => returned.value = n
        /\ (n = None /\ q # None) => returned.value = q
        /\ (n = None /\ q = None) => returned.value = JSON_PATH
        /\ (q = JSONATA /\ n = JSON_PATH) => returned.value = JSON_PATH

\* the combination renderQueryLanguage refuses
C14_Witness ==
  /\ last = "_getActualQueryLanguage"
  /\ returned.topLevelQueryLanguage = JSONATA
  /\ returned.stateLevelQueryLanguage = JSON_PATH
  /\ returned.value = JSON_PATH

----------------------------------------------------------------------------
(* Prefixes: a is created in the root construct, b in the root or in a,   *)
(* c in the root, in a or in b; b has a stateName, an empty one or none.  *)

\* at most this many prefixes are added to one state
MaxPrefixes == 2

StateNames == {Undefined, <<>>, <<"S">>}

PrefixInputs == {<<>>, <<"A">>, <<"B">>}

InitTree ==
  /\ Fields
  /\ \E n \in StateNames :
       props = [s \in States |->
                  IF s = "b" THEN [NoProps EXCEPT !.stateName = n]
                  ELSE NoProps]
  /\ \E sb \in {Root, "a"}, sc \in {Root, "a", "b"} :
       scope = [s \in States |->
                  IF s = "a" THEN Root ELSE IF s = "b" THEN sb ELSE sc]

Prefixing == \A s \in States : Len(prefixes[s]) < MaxPrefixes

DoPrefixStates ==
  \E root \in Constructs, x \in PrefixInputs :
    Prefixing /\ PrefixStates(root, x)

DoAddPrefix ==
  \E s \in States, x \in PrefixInputs : Prefixing /\ AddPrefix(s, x)

DoStateId == \E s \in States : StateId(s)

NextPrefix ==
  \/ DoPrefixStates
  \/ DoAddPrefix
  \/ DoStateId

SpecPrefix == InitTree /\ [][NextPrefix]_vars

RECURSIVE Within(_, _)
\* the construct c is root or was created below it
Within(c, root) == c = root \/ (c \in States /\ Within(scope[c], root))

StatesWithin(root) == {s \in States : Within(s, root)}

\* C15 as stated: a composition prefixed with "A" and then prefixed with "B"
\* has, for every state in it, the stateId "AB" followed by the original
\* identifier of the state.
C15_SecondPrefixFollowsFirst ==
  [][\A root \in Constructs :
       (/\ PrefixStates(root, <<"B">>)
        /\ \A s \in StatesWithin(root) : prefixes[s] = <<<<"A">>>>)
       => \A s \in StatesWithin(root) :
            stateIdWith(prefixes'[s], s) = <<"A", "B">> \o nameOf(s)
    ]_vars

\* C15 amended: prefixStates(root, x) with a non-empty x puts x in front of
\* the stateId of every state created in or below root and changes no other
\* state, and an empty x changes nothing; so a composition prefixed with "A"
\* and then with "B" has the stateIds "BA" followed by the original
\* identifier (the stateName when one is given, else the construct id).
C15_NewestPrefixComesFirst ==
  [][\A root \in Constructs : \A x \in PrefixInputs :
       PrefixStates(root, x) =>
         /\ returned'.ended
         /\ \A s \in States :
              stateIdWith(prefixes'[s], s) =
                (IF s \in StatesWithin(root) THEN x \o stateId(s)
                 ELSE stateId(s))
         /\ (x = <<"B">> /\ \A s \in StatesWithin(root) :
                               prefixes[s] = <<<<"A">>>>)
            => \A s \in StatesWithin(root) :
                 stateIdWith(prefixes'[s], s) = <<"B", "A">> \o nameOf(s)
    ]_vars

\* the whole composition was prefixed with "A" and then with "B"
C15_Witness ==
  /\ last = "prefixStates"
  /\ returned.root = Root
  /\ returned.prefix = <<"B">>
  /\ scope["c"] = "b"
  /\ \A s \in States : prefixes[s] = <<<<"B">>, <<"A">>>>
  /\ stateId("b") = <<"B", "A", "S">>
  /\ stateId("c") = <<"B", "A", "c">>

----------------------------------------------------------------------------
(* Properties of the single default transitions *)

C17_SecondMakeDefaultFails ==
  [][/\ \A s, t \in States :
          (MakeDefault(s, t) /\ defaultChoice[s] # None) =>
            (thrown' = DefaultError(s) /\ ObjectsUnchanged)
     /\ \A s, t \in States :
          (MakeDefault(s, t) /\ defaultChoice[s] = None) =>
            (thrown' = NoError /\ defaultChoice'[s] = t)
     /\ \A s \in States :
          defaultChoice[s] # None => defaultChoice'[s] = defaultChoice[s]
    ]_vars

\* a state with a default choice has just refused another one
C17_Witness ==
  /\ last = "makeDefault"
  /\ thrown = DefaultError("a")
  /\ defaultChoice["a"] = "b"

----------------------------------------------------------------------------
(* The choices of state a: branches to b and c under two conditions, a    *)
(* default choice, and prefixes on b; rendered at any time.               *)

ChoiceConditions == {"c1", "c2"}

DoAddChoiceBranch ==
  \E c \in ChoiceConditions, t \in {"b", "c"} :
    Len(choices["a"]) < MaxChoices /\ AddChoice("a", c, t)

DoMakeDefaultChoice == \E t \in {"b", "c"} : MakeDefault("a", t)

DoPrefixB ==
  \E x \in {<<>>, <<"A">>} :
    Len(prefixes["b"]) < MaxPrefixes /\ AddPrefix("b", x)

NextChoices ==
  \/ DoAddChoiceBranch
  \/ DoMakeDefaultChoice
  \/ DoPrefixB
  \/ DoRenderChoices

SpecChoices == Init /\ [][NextChoices]_vars

\* C18: the Choices entries renderChoices emits are the declared branches in
\* the order of the addChoice calls, entry i being the i-th call with its
\* condition and the stateId of its target, none dropped or repeated, and
\* Default is the stateId of the default choice iff one is set; addChoice
\* appends its branch at the end of the list.
C18_ChoicesKeepDeclarationOrder ==
  /\ [](last = "renderChoices" =>
         LET cs == choices[returned.state]
             d == defaultChoice[returned.state]
         IN  /\ returned.Choices.present <=> cs # <<>>
             /\ Len(returned.Choices.list) = Len(cs)
             /\ \A i \in 1..Len(cs) :
                  /\ returned.Choices.list[i].Condition = cs[i].condition
                  /\ returned.Choices.list[i].Next = stateId(cs[i].next)
             /\ returned.Default.present <=> d # None
             /\ returned.Default.present =>
                  returned.Default.value = stateId(d))
  /\ [][\A s, t \in States : \A c \in ChoiceConditions :
          AddChoice(s, c, t) =>
            choices'[s] = Append(choices[s], [condition |-> c, next |-> t])
       ]_vars

\* c2 -> c was declared before c1 -> b, b was prefixed, and the default is b
C18_Witness ==
  /\ last = "renderChoices"
  /\ returned.state = "a"
  /\ returned.Choices.list =
       <<[Condition |-> "c2", Next |-> <<"c">>],
         [Condition |-> "c1", Next |-> <<"A", "b">>]>>
  /\ returned.Default = [present |-> TRUE, value |-> <<"A", "b">>]

----------------------------------------------------------------------------
(* Properties of declarations on bound states *)

\* what a declaration s -> t on a bound s guarantees when the call is over
BoundSourceBindsTarget(s, t) ==
  Bound(s) =>
    /\ thrown'.kind = "none" =>
         /\ containingGraph'[t] = containingGraph[s]
         /\ containingGraph'[s] = containingGraph[s]
         /\ s \in SeqToSet(incomingStates'[t])
    /\ (Bound(t) /\ containingGraph[t] # containingGraph[s]) =>
         thrown'.kind = "graph"

\* C19: when makeNext, addChoice or _addCatch is called on a state bound to
\* a graph and returns, the target is bound to that graph and the source is
\* in the incoming list of the target; when the target is bound to another
\* graph, the call fails (makeNext on a state that has a default-next fails
\* before that, with its own error).
C19_DeclarationOnBoundSourceBinds ==
  [][\A s, t \in States :
       /\ (MakeNext(s, t) /\ _next[s] = None) => BoundSourceBindsTarget(s, t)
       /\ \A c \in Conditions :
            AddChoice(s, c, t) => BoundSourceBindsTarget(s, t)
       /\ AddCatch(s, t, Omitted) => BoundSourceBindsTarget(s, t)
    ]_vars

\* a was bound alone; the catch handler b declared afterwards joined its graph
C19_Witness ==
  /\ last = "addCatch"
  /\ thrown = NoError
  /\ bodyRuns = 1
  /\ catches["a"] # <<>>
  /\ containingGraph["a"] = "G1"
  /\ containingGraph["b"] = "G1"
  /\ incomingStates["b"] = <<"a">>

----------------------------------------------------------------------------
(* Properties of the sub-graphs *)

SubGraphs(s) == SeqToSet(subGraphsOf(Heap, s))

\* the sub-graphs of s after the step
SubGraphsAfter(s) ==
  SeqToSet(branches'[s])
    \cup {g \in {iteration'[s], processor'[s]} : g # None}

RegisteredNow(sub, g) ==
  /\ registerSuperGraphCalls' = registerSuperGraphCalls + 1
  /\ superGraph'[sub] = IF superGraph[sub] = None THEN g ELSE superGraph[sub]

\* attaching sub to s: at once if s is bound, else not at all
AttachRegisters(s, sub) ==
  IF Bound(s) THEN RegisteredNow(sub, containingGraph[s])
  ELSE /\ registerSuperGraphCalls' = registerSuperGraphCalls
       /\ superGraph' = superGraph

\* a call that returns has registered every sub-graph of every state it bound
BindRegisters ==
  thrown'.kind = "none" =>
    /\ \A t \in States :
         (~Bound(t) /\ containingGraph'[t] # None) =>
           \A sub \in SubGraphsAfter(t) : superGraph'[sub] = containingGraph'[t]
    /\ registerSuperGraphCalls' - registerSuperGraphCalls =
         SumOver({t \in States : ~Bound(t) /\ containingGraph'[t] # None},
                 [t \in States |-> Len(subGraphsOf(Heap, t))])

----------------------------------------------------------------------------
(* BatchSubmitJob tasks are constructed with any props and rendered *)

ArraySizes ==
  {NoNumber, TokenNumber, Num(0), Num(1), Num(2), Num(3), Num(9999),
   Num(10000), Num(10001)}

AttemptCounts == {NoNumber, Num(1), Num(11)}

Durations == {NoNumber, Num(0), Num(30), Num(59), Num(60), Num(61)}

TaskTimeouts ==
  {NoTaskTimeout, TimeoutAt, TimeoutDuration(0), TimeoutDuration(30),
   TimeoutDuration(60), TimeoutDuration(90)}

JobProps ==
  [arraySize : ArraySizes, attempts : AttemptCounts, timeout : Durations,
   taskTimeout : TaskTimeouts]

DoNewBatchSubmitJob == \E p \in JobProps : NewBatchSubmitJob(p)

DoRenderTask == RenderTask

NextBatch ==
  \/ DoNewBatchSubmitJob
  \/ DoRenderTask

SpecBatch == Init /\ [][NextBatch]_vars

\* C21: the constructor of BatchSubmitJob refuses the array size iff it is a
\* resolved number below 2 or above 10000; an array size left out, an
\* unresolved one and every number from 2 to 10000 pass this check.
C21_ArraySizeBetween2And10000 ==
  last = "BatchSubmitJob" =>
    LET size == job.props.arraySize IN
    /\ thrown.kind = "arraySize" <=>
         (size.defined /\ size.resolved
            /\ (size.value < 2 \/ size.value > 10000))
    /\ (~size.defined \/ ~size.resolved
          \/ (size.value >= 2 /\ size.value <= 10000))
         => thrown.kind # "arraySize"
    /\ job.constructed <=> thrown = NoError

\* the array size 1 has just been refused
C21_Witness ==
  /\ last = "BatchSubmitJob"
  /\ job.props.arraySize = Num(1)
  /\ thrown = ValidationError("arraySize")
  /\ ~job.constructed

\* the attempt duration the constructor is given: props.timeout in seconds
\* if set, otherwise props.taskTimeout.seconds
AttemptDuration ==
  IF job.props.timeout.defined THEN job.props.timeout
  ELSE job.props.taskTimeout.seconds

\* C27: the constructor of BatchSubmitJob fails whenever the attempt
\* duration it is given is below 60 seconds, 0 included, and does not refuse
\* a duration of 60 or more; props.timeout comes before props.taskTimeout in
\* this check and in the rendered Timeout.AttemptDurationSeconds.
C27_DurationsBelow60Refused ==
  /\ last = "BatchSubmitJob" =>
       /\ (AttemptDuration.defined /\ AttemptDuration.value < 60)
            => thrown # NoError
       /\ (AttemptDuration.defined /\ AttemptDuration.value >= 60)
            => thrown.kind # "timeout"
  /\ (last = "_renderTask" /\ job.props.timeout.defined) =>
       /\ returned.Timeout.present
       /\ returned.Timeout.AttemptDurationSeconds = job.props.timeout

\* C27 without the duration 0: a duration from 1 to 59 is refused, one of 60
\* or more is not, and a rendered Timeout is that of props.timeout if given
C27_DurationsFrom1To59Refused ==
  /\ last = "BatchSubmitJob" =>
       /\ (AttemptDuration.defined /\ AttemptDuration.value < 60
             /\ AttemptDuration.value # 0)
            => thrown # NoError
       /\ (AttemptDuration.defined /\ AttemptDuration.value >= 60)
            => thrown.kind # "timeout"
       /\ thrown.kind = "timeout" =>
            (AttemptDuration.defined /\ AttemptDuration.value < 60)
  /\ (last = "_renderTask" /\ job.props.timeout.defined
        /\ job.props.timeout.value # 0) =>
       /\ returned.Timeout.present
       /\ returned.Timeout.AttemptDurationSeconds = job.props.timeout

\* a job with a timeout of 0 seconds has been constructed
C27_ZeroDurationAccepted ==
  /\ last = "BatchSubmitJob"
  /\ job.props.timeout = Num(0)
  /\ job.constructed

----------------------------------------------------------------------------
(* Order of the rules that do not match the wildcard *)

NotWildcard(rule) == ~IsWildcard(rule)

\* C22: in the rendered Retry list and in the rendered Catch list, the rules
\* whose error list does not hold the wildcard come in the order of their
\* declaration, whatever was declared and whenever the lists were rendered
\* before.
C22_NonWildcardRulesKeepDeclarationOrder ==
  last = "renderRetryCatch" =>
    LET d == declared[rendered.state] IN
    /\ SelectSeq(rendered.Retry.list, NotWildcard) =
         SelectSeq([i \in 1..Len(d.retries) |->
                      [ErrorEquals |-> d.retries[i].errors]], NotWildcard)
    /\ SelectSeq(rendered.Catch.list, NotWildcard) =
         SelectSeq([i \in 1..Len(d.catches) |->
                      [ErrorEquals |-> d.catches[i].errors,
                       Next |-> stateId(d.catches[i].next)]], NotWildcard)

\* two different rules around a wildcard rule, rendered in their order
C22_Witness ==
  /\ last = "renderRetryCatch"
  /\ Len(declared["a"].retries) = 3
  /\ declared["a"].retries[1].errors = <<TIMEOUT>>
  /\ declared["a"].retries[2].errors = <<ALL>>
  /\ declared["a"].retries[3].errors = <<TASK_FAILED>>
  /\ rendered.Retry.list =
       <<[ErrorEquals |-> <<TIMEOUT>>], [ErrorEquals |-> <<TASK_FAILED>>],
         [ErrorEquals |-> <<ALL>>]>>

----------------------------------------------------------------------------
(* The QueryLanguage field of a rendered state *)

\* the root dialect is JSONPath, given or by default
PathBasedRoot(q) == q = JSON_PATH \/ q = None

\* C23: a renderQueryLanguage that returns gives QueryLanguage = JSONata iff
\* the root dialect is JSONPath or unset and the state's own dialect is
\* JSONata; in every other combination that does not fail the field is
\* undefined, a JSONata state under a JSONata root included.
C23_MarkerOnlyForJsonataUnderJsonPath ==
  (last = "renderQueryLanguage" /\ thrown = NoError) =>
    LET n == props[returned.state].queryLanguage
        q == returned.topLevelQueryLanguage
    IN  /\ returned.QueryLanguage \in {JSONATA, None}
        /\ returned.QueryLanguage = JSONATA <=> (PathBasedRoot(q) /\ n = JSONATA)
        /\ (q = JSONATA /\ n = JSONATA) => returned.QueryLanguage = None

\* a JSONata state rendered under an unset root carries the marker
C23_Witness ==
  /\ last = "renderQueryLanguage"
  /\ thrown = NoError
  /\ returned.topLevelQueryLanguage = None
  /\ props[returned.state].queryLanguage = JSONATA
  /\ returned.QueryLanguage = JSONATA

\* a JSONata state rendered under a JSONata root carries none
C23_WitnessNoMarker ==
  /\ last = "renderQueryLanguage"
  /\ thrown = NoError
  /\ returned.topLevelQueryLanguage = JSONATA
  /\ props[returned.state].queryLanguage = JSONATA
  /\ returned.QueryLanguage = None

----------------------------------------------------------------------------
(* The stateId of a state *)

RECURSIVE Concatenation(_)
\* the strings of a list one after the other, from the front to the back
Concatenation(list) ==
  IF Len(list) = 0 THEN <<>>
  ELSE Concatenation(SubSeq(list, 1, Len(list) - 1)) \o list[Len(list)]

\* addPrefix(s, '') changes neither the prefixes nor the stateId
EmptyPrefixIsIgnored ==
  \A s \in States :
    AddPrefix(s, <<>>) =>
      /\ prefixes' = prefixes
      /\ stateIdWith(prefixes'[s], s) = stateId(s)

\* C24 as stated: the stateId of a state is its prefixes in list order
\* followed by its stateName whenever a stateName was given to the
\* constructor, and by its construct id otherwise; addPrefix with the empty
\* string changes nothing.
C24_StateIdEndsWithSuppliedName ==
  last = "stateId" =>
    LET s == returned.state IN
    returned.value =
      Concatenation(prefixes[s]) \o
        (IF props[s].stateName # Undefined THEN props[s].stateName
         ELSE <<s>>)

\* C24 amended: the stateId of a state is its prefixes in list order
\* followed by its stateName when a non-empty stateName was given, and by its
\* construct id when none or the empty string was given; addPrefix with the
\* empty string leaves the prefixes and the stateId as they are.
C24_StateIdEndsWithNonEmptyName ==
  /\ [](last = "stateId" =>
          LET s == returned.state IN
          returned.value =
            Concatenation(prefixes[s]) \o
              (IF props[s].stateName \notin {Undefined, <<>>}
               THEN props[s].stateName
               ELSE <<s>>))
  /\ [][EmptyPrefixIsIgnored]_vars

\* the stateId of a named state with two prefixes was read
C24_Witness ==
  /\ last = "stateId"
  /\ returned.state = "b"
  /\ props["b"].stateName = <<"S">>
  /\ prefixes["b"] = << <<"B">>, <<"A">> >>
  /\ returned.value = <<"B", "A", "S">>

\* the stateId of a state constructed with stateName '' was read
C24_WitnessEmptyName ==
  /\ last = "stateId"
  /\ returned.state = "b"
  /\ props["b"].stateName = <<>>
  /\ returned.value = <<"b">>

----------------------------------------------------------------------------
(* What a bindToGraph on an unbound state binds *)

AllUnbound == \A u \in States : ~Bound(u)

\* s has catch handlers and no other transition, and nothing points at s
OnlyCatches(s) ==
  /\ _next[s] = None
  /\ defaultChoice[s] = None
  /\ choices[s] = <<>>
  /\ catches[s] # <<>>
  /\ incomingStates[s] = <<>>

\* C25 as stated: bindToGraph takes no request to follow error handlers, so
\* a bindToGraph on an unbound state binds its next, default and choice
\* targets and leaves its catch targets alone: called while every state is
\* unbound on a state whose only transitions are catches, it binds no
\* handler.
C25_CatchTargetsLeftUnbound ==
  [][\A s \in States, g \in Graphs :
       (BindToGraph(s, g) /\ AllUnbound /\ OnlyCatches(s)) =>
         \A t \in States \ {s} : HasCatch(s, t) => containingGraph'[t] = None
    ]_vars

\* C25 amended: a bindToGraph(G) that returns on an unbound state leaves the
\* state, its next, default-choice and choice targets and all its catch
\* targets bound to G; the catch targets are always followed.
C25_CatchTargetsAlwaysBound ==
  [][\A s \in States, g \in Graphs :
       (BindToGraph(s, g) /\ ~Bound(s) /\ thrown'.kind = "none") =>
         /\ containingGraph'[s] = g
         /\ \A t \in States :
              (HasNext(s, t) \/ HasDefault(s, t) \/ HasChoice(s, t)
                 \/ HasCatch(s, t))
                => containingGraph'[t] = g
    ]_vars

\* a was bound while its only transition was a catch to b: b is bound too
C25_Witness ==
  /\ last = "bindToGraph"
  /\ thrown = NoError
  /\ bodyRuns = 2
  /\ OnlyCatches("a")
  /\ HasCatch("a", "b")
  /\ incomingStates["b"] = <<"a">>
  /\ _next["b"] = None /\ catches["b"] = <<>>
  /\ containingGraph["a"] = "G1"
  /\ containingGraph["b"] = "G1"
  /\ registerStateCalls["b"] = 1

----------------------------------------------------------------------------
(* The fields of the input/output fragment *)

\* the root dialects under which the state renders
RootsOf(s) ==
  {q \in QueryLanguages :
     ~dialectConflict(orJsonPath(q), props[s].queryLanguage)}

\* C26 as stated: renderInputOutput emits the path fields (InputPath,
\* Parameters, OutputPath) or the expression fields (Arguments, Output)
\* depending on the resolved dialect of the state: no expression field under
\* JSONPath, no path field under JSONata.
C26_FieldsFollowDialect ==
  (last = "renderInputOutput" /\ thrown = NoError) =>
    \A q \in RootsOf(returned.state) :
      LET dialect ==
            _getActualQueryLanguage(q, props[returned.state].queryLanguage)
      IN  /\ dialect = JSON_PATH =>
               /\ ~returned.Arguments.present
               /\ ~returned.Output.present
          /\ dialect = JSONATA =>
               /\ ~returned.InputPath.present
               /\ ~returned.Parameters.present
               /\ ~returned.OutputPath.present

\* C26 amended: a renderInputOutput that returns emits each of InputPath,
\* Parameters, OutputPath, Arguments and Output exactly when the state was
\* given the matching prop (inputPath, parameters, outputPath, arguments,
\* outputs), with the value given, whatever the dialect of the state is.
C26_FieldsFollowProps ==
  (last = "renderInputOutput" /\ thrown = NoError) =>
    LET p == props[returned.state]
        Given(field, value) ==
          /\ field.present <=> value # Undefined
          /\ field.present => field.value = value
    IN  /\ Given(returned.InputPath, p.inputPath)
        /\ Given(returned.Parameters, p.parameters)
        /\ Given(returned.OutputPath, p.outputPath)
        /\ Given(returned.Arguments, p.arguments)
        /\ Given(returned.Output, p.outputs)

\* a JSONata state given inputPath and arguments renders both fields
C26_Witness ==
  /\ last = "renderInputOutput"
  /\ thrown = NoError
  /\ props[returned.state].queryLanguage = JSONATA
  /\ props[returned.state].inputPath = DollarFoo
  /\ props[returned.state].arguments = AnObject
  /\ props[returned.state].parameters = Undefined
  /\ returned.InputPath = [present |-> TRUE, value |-> DollarFoo]
  /\ returned.Arguments = [present |-> TRUE, value |-> AnObject]
  /\ ~returned.Parameters.present

----------------------------------------------------------------------------
(* The states one bindToGraph binds when nothing is bound yet *)

\* a next, choice or catch transition between s and t, in either direction
Linked(s, t) ==
  \/ HasNext(s, t) \/ HasChoice(s, t) \/ HasCatch(s, t)
  \/ HasNext(t, s) \/ HasChoice(t, s) \/ HasCatch(t, s)

RECURSIVE Grow(_, _)
\* the states chains of such transitions connect to S, with the default
\* transitions followed from their source when forwardDefaults is set
Grow(S, forwardDefaults) ==
  LET N == S \cup {t \in States :
                     \E u \in S : \/ Linked(u, t)
                                  \/ (forwardDefaults /\ HasDefault(u, t))}
  IN  IF N = S THEN S ELSE Grow(N, forwardDefaults)

Component(s) == Grow({s}, FALSE)

ComponentWithDefaults(s) == Grow({s}, TRUE)

\* C28: when every state is unbound, bindToGraph(G) on s returns with every
\* state that chains of next, choice and catch transitions (followed in both
\* directions) connect to s bound to G, and binds no state outside of what
\* those transitions and the default transitions, followed forward, connect
\* to s.
C28_BindsTheWholeComponent ==
  [][\A s \in States, g \in Graphs :
       (BindToGraph(s, g) /\ AllUnbound) =>
         /\ thrown'.kind = "none"
         /\ \A t \in Component(s) : containingGraph'[t] = g
         /\ \A t \in States \ ComponentWithDefaults(s) :
              containingGraph'[t] = None
    ]_vars

\* a chain a -> b -> c was bound by one call
C28_Witness ==
  /\ last = "bindToGraph"
  /\ thrown = NoError
  /\ bodyRuns = 3
  /\ (HasNext("a", "b") \/ HasCatch("a", "b"))
  /\ (HasNext("b", "c") \/ HasChoice("b", "c"))
  /\ \A t \in States : containingGraph[t] = "G1"

\* a state outside of the component of the bound state stays unbound
C28_WitnessOutside ==
  /\ last = "bindToGraph"
  /\ thrown = NoError
  /\ bodyRuns = 1
  /\ HasDefault("a", "b")
  /\ HasNext("c", "a")
  /\ containingGraph["b"] = "G1"
  /\ containingGraph["a"] = None
  /\ containingGraph["c"] = None

----------------------------------------------------------------------------
(* What a failed bindToGraph leaves behind *)

\* bindToGraph(g) on the unbound state s ends with the error that a state is
\* already in another graph
FailedBind(s, g) ==
  /\ BindToGraph(s, g)
  /\ ~Bound(s)
  /\ thrown'.kind = "graph"

\* the states the step binds
NewlyBound == {t \in States : ~Bound(t) /\ containingGraph'[t] # None}

\* C29 as stated: a bindToGraph(G) on an unbound state that fails because a
\* connected state is in another graph changes no containingGraph and no
\* graph's registered states.
C29_FailedBindChangesNothing ==
  [][\A s \in States, g \in Graphs :
       FailedBind(s, g) =>
         /\ containingGraph' = containingGraph
         /\ allStates' = allStates
    ]_vars

\* C29 amended: such a failed bindToGraph(G) on s names a state that was and
\* stays in another graph, and it is not undone: s and the states the
\* recursion went through before it met that state are left bound to G and
\* registered in G; a state bound before keeps its graph, no state is bound
\* to another graph than G, and the other graphs keep their states.
C29_FailedBindKeepsWhatItBound ==
  [][\A s \in States, g \in Graphs :
       FailedBind(s, g) =>
         /\ thrown'.graph = g
         /\ thrown'.existing \notin {None, g}
         /\ containingGraph[thrown'.state] = thrown'.existing
         /\ containingGraph'[s] = g
         /\ \A t \in States :
              IF t \in NewlyBound
              THEN containingGraph'[t] = g /\ t \in ComponentWithDefaults(s)
              ELSE containingGraph'[t] = containingGraph[t]
         /\ allStates'[g] = allStates[g] \cup NewlyBound
         /\ \A f \in Graphs \ {g} : allStates'[f] = allStates[f]
    ]_vars

\* a failed bindToGraph(G2) left the state it was called on in G2
C29_Witness ==
  /\ last = "bindToGraph"
  /\ thrown.kind = "graph"
  /\ thrown.graph = "G2"
  /\ thrown.existing = "G1"
  /\ bodyRuns = 1
  /\ \E s \in States \ {thrown.state} :
       /\ containingGraph[s] = "G2"
       /\ allStates["G2"] = {s}
       /\ registerStateCalls[s] = 1
       /\ Transition(s, thrown.state)

----------------------------------------------------------------------------
(* The stored retry and catch lists: state a declares retry rules and     *)
(* catch handlers b and c, and is rendered at any time.                   *)

Handlers == {"b", "c"}

HandlerErrors == {Omitted, <<TIMEOUT>>, <<ALL, TIMEOUT>>}

DoAddCatchTo ==
  \E t \in Handlers, e \in HandlerErrors :
    DeclaringRules /\ AddCatch("a", t, e)

NextStored ==
  \/ DoAddRetry
  \/ DoAddCatchTo
  \/ DoRenderRetryCatch

SpecStored == Init /\ [][NextStored]_vars

WildcardRule(rule) == ALL \in SeqToSet(rule.errors)

OtherRule(rule) == ~WildcardRule(rule)

\* the rules without the wildcard in their order, then those with it in
\* theirs
WildcardsMovedLast(list) ==
  SelectSeq(list, OtherRule) \o SelectSeq(list, WildcardRule)

RetryOf(list) == [i \in 1..Len(list) |-> [ErrorEquals |-> list[i].errors]]

CatchOf(list) ==
  [i \in 1..Len(list) |->
     [ErrorEquals |-> list[i].errors, Next |-> stateId(list[i].next)]]

\* C30 as stated: renderRetryCatch leaves the stored retry list and the
\* stored catch list as they are.
C30_StoredListsUnchanged ==
  [][\A s \in States :
       RenderRetryCatch(s) => (retries' = retries /\ catches' = catches)
    ]_vars

\* C30 amended: renderRetryCatch reorders the stored lists of the state, the
\* wildcard rules moved behind the others and the order kept otherwise, and
\* leaves the lists of the other states alone; the rendered lists are always
\* the declared rules in declaration order with the wildcard rules moved
\* last, whether or not the state was rendered before some of them were
\* declared, and rendering again gives the same lists.
C30_StoredListsSortedInPlace ==
  /\ [](last = "renderRetryCatch" =>
          LET d == declared[rendered.state] IN
          /\ rendered.Retry.list = RetryOf(WildcardsMovedLast(d.retries))
          /\ rendered.Catch.list = CatchOf(WildcardsMovedLast(d.catches))
          /\ retries[rendered.state] = WildcardsMovedLast(d.retries)
          /\ catches[rendered.state] = WildcardsMovedLast(d.catches))
  /\ [][\A s \in States :
          RenderRetryCatch(s) =>
            /\ retries' = [retries EXCEPT ![s] = WildcardsMovedLast(@)]
            /\ catches' = [catches EXCEPT ![s] = WildcardsMovedLast(@)]
            /\ (last = "renderRetryCatch" /\ rendered.state = s)
                 => rendered' = rendered
       ]_vars

\* a wildcard handler declared first was stored last by the rendering, and a
\* handler declared after the rendering was then stored before it
C30_Witness ==
  /\ last = "renderRetryCatch"
  /\ declared["a"].catches =
       <<[next |-> "b", errors |-> <<ALL>>],
         [next |-> "c", errors |-> <<TIMEOUT>>],
         [next |-> "b", errors |-> <<TIMEOUT>>]>>
  /\ catches["a"] =
       <<[next |-> "c", errors |-> <<TIMEOUT>>],
         [next |-> "b", errors |-> <<TIMEOUT>>],
         [next |-> "b", errors |-> <<ALL>>]>>

----------------------------------------------------------------------------
(* Registration of the states in their graph *)

\* the graphs s was registered in
RegisteredIn(s) == {g \in Graphs : s \in allStates[g]}

\* C31: with the whenBoundToGraph of State, a state is registered in the
\* graph G iff its containingGraph is G, and registerState is called at most
\* once for a state, whatever bindToGraph calls and declarations of
\* transitions were made, failed ones included: no state is registered in
\* two graphs or twice in one.
C31_RegisteredIffBound ==
  \A s \in States :
    /\ \A g \in Graphs : s \in allStates[g] <=> containingGraph[s] = g
    /\ registerStateCalls[s] <= 1
    /\ registerStateCalls[s] = 1 <=> Bound(s)
    /\ Cardinality(RegisteredIn(s)) <= 1

\* both graphs have states, bound by calls and by declarations, and the last
\* call was a bindToGraph that failed on a state of the other graph
C31_Witness ==
  /\ last = "bindToGraph"
  /\ thrown.kind = "graph"
  /\ allStates["G1"] # {}
  /\ allStates["G2"] # {}
  /\ \A s \in States : Bound(s) /\ registerStateCalls[s] = 1
  /\ containingGraph[thrown.state] = thrown.existing

============================================================================
